---- MODULE Spec2Model ----
(***************************************************************************)
(* Model of src/main.py: a FastAPI video-sharing backend over SQLite       *)
(* (SQLAlchemy ORM) and a local upload directory.                          *)
(*                                                                         *)
(* Each request runs in its own worker thread with its own Session.  A     *)
(* handler is a sequence of steps; each step is one SELECT, one file       *)
(* system call, or one flush+COMMIT.  Python code between two such calls   *)
(* only touches the request's locals and is folded into the step before    *)
(* it.  SELECTs run outside a write transaction (pysqlite opens one only   *)
(* before DML), a flush+COMMIT is atomic under SQLite's write lock.        *)
(***************************************************************************)
EXTENDS Integers, Sequences, FiniteSets, TLC

\* ------------------------------------------------------------- bounds
\* uploads that get as far as generating a locator
MaxUploads == 2
\* largest id a row of the likes table gets
MaxLikeId == 2
\* |videos.likes| stays within -LikeCap .. LikeCap
LikeCap == 2
\* rows of the comments table
MaxComments == 1
\* length of a run of toggleLike calls that SpecSeq follows
MaxCalls == 4

\* worker threads serving requests
Req == {"r1", "r2"}
\* usernames offered to /register, and the tokens sent with requests
Usernames == {"alice", "bob"}
\* form values; a string is a sequence of characters
Titles == {<<>>, <<" ">>, <<"T">>}
Descriptions == {<<" ">>, <<"D">>}
Contents == {<<" ">>, <<"c">>}
\* video_id path parameters
VideoIds == 1..MaxUploads

\* ------------------------------------------------------------- state
VARIABLES
    users,      \* table users:    set of [id, username]
    videos,     \* table videos:   set of [id, title, description, filename, likes, uploader_id]
    likes,      \* table likes:    set of [id, user_id, video_id]
    comments,   \* table comments: set of [id, video_id, user_id, content]
    files,      \* paths present under UPLOAD_DIR
    failed,     \* history: paths whose open() or copy raised, whatever they left behind
    uuidCtr,    \* number of uuid4() values drawn so far
    req,        \* per worker thread: the request it serves, its locals, its response
    streak      \* history: the run of toggleLike calls SpecSeq follows

vars == <<users, videos, likes, comments, files, failed, uuidCtr, req, streak>>
db == <<users, videos, likes, comments>>

\* ------------------------------------------------------------ helpers
Max(S) == CHOOSE x \in S : \A y \in S : y <= x

\* SQLite rowid for an INTEGER PRIMARY KEY without AUTOINCREMENT:
\* one more than the largest id in the table, 1 for an empty table.
NextId(rows) == IF rows = {} THEN 1 ELSE Max({row.id : row \in rows}) + 1

Whitespace == {" "}

RECURSIVE LStrip(_)
LStrip(s) == IF s # <<>> /\ Head(s) \in Whitespace THEN LStrip(Tail(s)) ELSE s

RECURSIVE RStrip(_)
RStrip(s) ==
    IF s # <<>> /\ s[Len(s)] \in Whitespace THEN RStrip(SubSeq(s, 1, Len(s) - 1)) ELSE s

\* str.strip()
Strip(s) == RStrip(LStrip(s))

NoVideo == [id |-> 0, title |-> <<>>, description |-> <<>>, filename |-> 0,
            likes |-> 0, uploader_id |-> 0]

NoResp == [code |-> 0, detail |-> "", id |-> 0, likes |-> 0, liked |-> FALSE, list |-> {}]

Resp(code, detail) == [NoResp EXCEPT !.code = code, !.detail = detail]

\* an unhandled exception: Starlette answers 500
ServerError == Resp(500, "Internal Server Error")

Idle == [pc |-> "idle", op |-> "none", token |-> "", vid |-> 0, title |-> <<>>,
         text |-> <<>>, user |-> 0, video |-> NoVideo, like |-> 0, liked |-> FALSE,
         path |-> 0, resp |-> NoResp]

NoStreak == [user |-> 0, vid |-> 0, n |-> 0, likes0 |-> 0, rows0 |-> {}, liked |-> FALSE]

Free(r) == req[r].pc \in {"idle", "done"}

\* the handler returns or raises: the response goes out and the Session is
\* closed.  Of the request the worker keeps what it was (op) and, for an
\* upload, the title and description that were sent, for a registration the
\* username.
Finish(r, op, resp) ==
    req' = [req EXCEPT ![r] =
        [Idle EXCEPT !.pc = "done", !.op = op, !.resp = resp,
                     !.token = IF op = "register" THEN req[r].token ELSE "",
                     !.title = IF op = "upload" THEN req[r].title ELSE <<>>,
                     !.text = IF op = "upload" THEN req[r].text ELSE <<>>]]

\* db.query(User).filter(User.username == token).first(); 0 stands for None
get_user_by_token(token) ==
    IF \E u \in users : u.username = token
    THEN (CHOOSE u \in users : u.username = token).id
    ELSE 0

\* db.query(Video).filter(Video.id == video_id).first()
VideoById(video_id) ==
    IF \E v \in videos : v.id = video_id
    THEN CHOOSE v \in videos : v.id = video_id
    ELSE NoVideo

Init ==
    /\ users = {}
    /\ videos = {}
    /\ likes = {}
    /\ comments = {}
    /\ files = {}
    /\ failed = {}
    /\ uuidCtr = 0
    /\ req = [r \in Req |-> Idle]
    /\ streak = NoStreak

\* ----------------------------------------------------- POST /register
\* lines 209-211: the username lookup
RegisterCheck(r, username) ==
    /\ Free(r)
    /\ IF \E u \in users : u.username = username
       THEN req' = [req EXCEPT ![r] =
                [Idle EXCEPT !.pc = "done", !.op = "register", !.token = username,
                             !.resp = Resp(400, "Username already exists")]]
       ELSE req' = [req EXCEPT ![r] =
                [Idle EXCEPT !.pc = "reg_commit", !.op = "register", !.token = username]]
    /\ UNCHANGED <<db, files, failed, uuidCtr>>

\* mutant of RegisterCommit: the username column has no UNIQUE constraint
RegisterCommitNoUnique(r) ==
    /\ req[r].pc = "reg_commit"
    /\ users' = users \cup {[id |-> NextId(users), username |-> req[r].token]}
    /\ Finish(r, "register", Resp(200, "User registered successfully"))
    /\ UNCHANGED <<videos, likes, comments, files, failed, uuidCtr>>

\* lines 215-227: INSERT and COMMIT; users.username is UNIQUE, so the INSERT of
\* a username committed meanwhile raises IntegrityError
RegisterCommit(r) ==
    /\ req[r].pc = "reg_commit"
    /\ IF \E u \in users : u.username = req[r].token
       THEN /\ Finish(r, "register", ServerError)
            /\ UNCHANGED users
       ELSE /\ users' = users \cup {[id |-> NextId(users), username |-> req[r].token]}
            /\ Finish(r, "register", Resp(200, "User registered successfully"))
    /\ UNCHANGED <<videos, likes, comments, files, failed, uuidCtr>>


\* mutant of EmptyInput: the values are tested without strip()
EmptyInputNoStrip(title, description) == title = <<>> \/ description = <<>>

\* ------------------------------------------------------- POST /upload
\* line 270: not title.strip() or not description.strip()
EmptyInput(title, description) == Strip(title) = <<>> \/ Strip(description) = <<>>

\* uploads accepted so far that have drawn, or will draw, a uuid
UploadsBegun ==
    uuidCtr + Cardinality({q \in Req : req[q].pc \in {"up_auth", "up_write"}})

\* lines 269-275: validation.  `if not file` never fires: File(...) is a
\* required field and an UploadFile object is always truthy.
UploadValidate(r, title, description, token) ==
    /\ Free(r)
    /\ IF EmptyInput(title, description)
       THEN req' = [req EXCEPT ![r] =
                [Idle EXCEPT !.pc = "done", !.op = "upload", !.title = title,
                             !.text = description,
                             !.resp = Resp(400, "Title and description cannot be empty")]]
       ELSE /\ UploadsBegun < MaxUploads
            /\ req' = [req EXCEPT ![r] =
                 [Idle EXCEPT !.pc = "up_auth", !.op = "upload", !.token = token,
                              !.title = title, !.text = description]]
    /\ UNCHANGED <<db, files, failed, uuidCtr>>


\* mutant of UploadAuth: the bytes are persisted before the token is checked
UploadAuthAfterWrite(r) ==
    /\ req[r].pc = "up_auth"
    /\ uuidCtr' = uuidCtr + 1
    /\ files' = files \cup {uuidCtr + 1}
    /\ LET user == get_user_by_token(req[r].token) IN
       IF user = 0
       THEN Finish(r, "upload", Resp(400, "Invalid token"))
       ELSE req' = [req EXCEPT ![r].pc = "up_commit", ![r].token = "", ![r].user = user,
                               ![r].path = uuidCtr + 1]
    /\ UNCHANGED <<db, failed>>

\* lines 277-281: authentication
UploadAuth(r) ==
    /\ req[r].pc = "up_auth"
    /\ LET user == get_user_by_token(req[r].token) IN
       IF user = 0
       THEN Finish(r, "upload", Resp(400, "Invalid token"))
       ELSE req' = [req EXCEPT ![r].pc = "up_write", ![r].token = "", ![r].user = user]
    /\ UNCHANGED <<db, files, failed, uuidCtr>>


\* mutant of UploadWrite: the locator is drawn but the bytes are not written
\* before the record is committed
UploadWriteLazy(r) ==
    /\ req[r].pc = "up_write"
    /\ uuidCtr' = uuidCtr + 1
    /\ req' = [req EXCEPT ![r].pc = "up_commit", ![r].path = uuidCtr + 1]
    /\ UNCHANGED <<db, files, failed>>

\* mutant of UploadWrite: an OSError of open() or copyfileobj() is swallowed
\* and the handler goes on to the INSERT
UploadWriteSwallow(r) ==
    /\ req[r].pc = "up_write"
    /\ uuidCtr' = uuidCtr + 1
    /\ LET file_path == uuidCtr + 1 IN
       /\ req' = [req EXCEPT ![r].pc = "up_commit", ![r].path = file_path]
       /\ \/ /\ files' = files \cup {file_path}
             /\ UNCHANGED failed
          \/ /\ files' \in {files, files \cup {file_path}}
             /\ failed' = failed \cup {file_path}
    /\ UNCHANGED db

\* lines 283-290: a fresh locator (uuid4 is modelled as never repeating), then
\* open() and copyfileobj().  An OSError leaves no file (open failed) or a
\* truncated one (the copy failed) and ends the request.
UploadWrite(r) ==
    /\ req[r].pc = "up_write"
    /\ uuidCtr' = uuidCtr + 1
    /\ LET file_path == uuidCtr + 1 IN
       \/ /\ files' = files \cup {file_path}
          /\ req' = [req EXCEPT ![r].pc = "up_commit", ![r].path = file_path]
          /\ UNCHANGED failed
       \/ /\ files' \in {files, files \cup {file_path}}
          /\ failed' = failed \cup {file_path}
          /\ Finish(r, "upload", ServerError)
    /\ UNCHANGED db

\* mutant of UploadCommit: the form values are stored in each other's column
UploadCommitSwapped(r) ==
    /\ req[r].pc = "up_commit"
    /\ LET video == [id |-> NextId(videos), title |-> req[r].text,
                     description |-> req[r].title, filename |-> req[r].path,
                     likes |-> 0, uploader_id |-> req[r].user] IN
       /\ videos' = videos \cup {video}
       /\ req' = [req EXCEPT ![r].pc = "up_refresh", ![r].user = 0, ![r].path = 0,
                              ![r].video = [NoVideo EXCEPT !.id = video.id]]
    /\ UNCHANGED <<users, likes, comments, files, failed, uuidCtr>>

\* lines 292-304: INSERT INTO videos and COMMIT
UploadCommit(r) ==
    /\ req[r].pc = "up_commit"
    /\ LET video == [id |-> NextId(videos), title |-> req[r].title,
                     description |-> req[r].text, filename |-> req[r].path,
                     likes |-> 0, uploader_id |-> req[r].user] IN
       /\ videos' = videos \cup {video}
       /\ req' = [req EXCEPT ![r].pc = "up_refresh", ![r].user = 0, ![r].path = 0,
                              ![r].video = [NoVideo EXCEPT !.id = video.id]]
    /\ UNCHANGED <<users, likes, comments, files, failed, uuidCtr>>

\* lines 306-310: db.refresh(video) selects the row by primary key and raises
\* InvalidRequestError when it is gone
UploadRefresh(r) ==
    /\ req[r].pc = "up_refresh"
    /\ IF VideoById(req[r].video.id) = NoVideo
       THEN Finish(r, "upload", ServerError)
       ELSE Finish(r, "upload",
                [Resp(200, "Video uploaded successfully") EXCEPT !.id = req[r].video.id])
    /\ UNCHANGED <<db, files, failed, uuidCtr>>

\* --------------------------------------------------------- GET /videos
\* video.uploader.username: the users row the uploader_id column points to
Uploader(video) == (CHOOSE u \in users : u.id = video.uploader_id).username

\* lines 320-331: the entries of the answer; the query has no ORDER BY, so
\* the answer is taken as the set of its entries
Listing ==
    {[id |-> video.id, title |-> video.title, description |-> video.description,
      likes |-> video.likes, uploader |-> Uploader(video)] : video \in videos}

\* lines 315-331: SELECT all videos; each uploader is loaded when it is first
\* used, and a users row is never changed or deleted
ListVideos(r) ==
    /\ Free(r)
    /\ Finish(r, "list", [Resp(200, "") EXCEPT !.list = Listing])
    /\ UNCHANGED <<db, files, failed, uuidCtr>>

\* ------------------------------------------------ GET /video/{video_id}
\* lines 338-347: the record is looked up; without one the answer is 404,
\* otherwise the handler returns a FileResponse for video.filename and its
\* Session is closed.  The worker keeps the id that was asked for.
StreamVideo(r, video_id) ==
    /\ Free(r)
    /\ LET video == VideoById(video_id) IN
       IF video = NoVideo
       THEN req' = [req EXCEPT ![r] =
                [Idle EXCEPT !.pc = "done", !.op = "stream", !.vid = video_id,
                             !.resp = Resp(404, "Video not found")]]
       ELSE req' = [req EXCEPT ![r] =
                [Idle EXCEPT !.pc = "stream_send", !.op = "stream", !.vid = video_id,
                             !.path = video.filename]]
    /\ UNCHANGED <<db, files, failed, uuidCtr>>

\* line 347: the FileResponse is sent after the handler has returned.  It
\* calls os.stat(path) first and raises RuntimeError("File at path ... does
\* not exist.") when that fails, before any header is sent; otherwise the
\* bytes go out as video/mp4.
StreamSend(r) ==
    /\ req[r].pc = "stream_send"
    /\ req' = [req EXCEPT ![r] =
            [Idle EXCEPT !.pc = "done", !.op = "stream", !.vid = req[r].vid,
                         !.resp = IF req[r].path \in files THEN Resp(200, "video/mp4")
                                  ELSE ServerError]]
    /\ UNCHANGED <<db, files, failed, uuidCtr>>

\* -------------------------------------------------- POST /like/{video_id}
\* lines 361-364: authentication
LikeAuth(r, video_id, token) ==
    /\ Free(r)
    /\ LET user == get_user_by_token(token) IN
       IF user = 0
       THEN Finish(r, "like", Resp(400, "Invalid token"))
       ELSE req' = [req EXCEPT ![r] =
                [Idle EXCEPT !.pc = "like_video", !.op = "like", !.vid = video_id,
                             !.user = user]]
    /\ UNCHANGED <<db, files, failed, uuidCtr>>

\* lines 366-369: the video is loaded; the handler goes on to use its id and
\* the likes value it was loaded with
LikeVideo(r) ==
    /\ req[r].pc = "like_video"
    /\ LET video == VideoById(req[r].vid) IN
       IF video = NoVideo
       THEN Finish(r, "like", Resp(404, "Video not found"))
       ELSE req' = [req EXCEPT ![r].pc = "like_existing",
                               ![r].video = [NoVideo EXCEPT !.id = video.id,
                                                            !.likes = video.likes]]
    /\ UNCHANGED <<db, files, failed, uuidCtr>>

\* rows of likes that match Like.user_id == user_id, Like.video_id == video_id
LikesOf(user_id, video_id) ==
    {l \in likes : l.user_id = user_id /\ l.video_id = video_id}

\* line 372: .first() of a query without ORDER BY: any matching row; 0 for None
LikeExisting(r) ==
    /\ req[r].pc = "like_existing"
    /\ LET found == LikesOf(req[r].user, req[r].vid) IN
       IF found = {}
       THEN req' = [req EXCEPT ![r].pc = "like_commit", ![r].like = 0]
       ELSE \E l \in found : req' = [req EXCEPT ![r].pc = "like_commit", ![r].like = l.id]
    /\ UNCHANGED <<db, files, failed, uuidCtr>>


\* mutant of NewLikes: the unlike branch forgets the decrement
NewLikesNoDecrement(video, existing_like) ==
    IF existing_like # 0 THEN video.likes ELSE video.likes + 1

\* lines 378 and 385: video.likes -= 1 / video.likes += 1 on the loaded object
NewLikes(video, existing_like) ==
    IF existing_like # 0 THEN video.likes - 1 ELSE video.likes + 1

\* lines 374-389: the flush and COMMIT.  The unit of work sends
\*   UPDATE videos SET likes = <value computed from the loaded one> WHERE id = ?
\* and INSERT INTO likes, or DELETE FROM likes WHERE id = ?.  An UPDATE that
\* matches no row raises StaleDataError and the transaction is rolled back; a
\* DELETE that matches no row is only warned about.
LikeCommit(r) ==
    /\ req[r].pc = "like_commit"
    /\ LET existing_like == req[r].like
           value == NewLikes(req[r].video, existing_like) IN
       IF VideoById(req[r].video.id) = NoVideo
       THEN /\ Finish(r, "like", ServerError)
            /\ UNCHANGED <<videos, likes>>
       ELSE /\ value \in -LikeCap..LikeCap
            /\ IF existing_like # 0
               THEN likes' = {l \in likes : l.id # existing_like}
               ELSE /\ NextId(likes) <= MaxLikeId
                    /\ likes' = likes \cup {[id |-> NextId(likes), user_id |-> req[r].user,
                                             video_id |-> req[r].vid]}
            /\ videos' = {IF v.id = req[r].video.id THEN [v EXCEPT !.likes = value] ELSE v :
                          v \in videos}
            /\ req' = [req EXCEPT ![r].pc = "like_return", ![r].like = 0,
                                   ![r].video = [NoVideo EXCEPT !.id = req[r].video.id],
                                   ![r].liked = (existing_like = 0)]
    /\ UNCHANGED <<users, comments, files, failed, uuidCtr>>

\* line 392: the commit expired the loaded video, so video.likes selects the
\* row again and raises ObjectDeletedError when it is gone
LikeReturn(r) ==
    /\ req[r].pc = "like_return"
    /\ LET video == VideoById(req[r].video.id) IN
       IF video = NoVideo
       THEN Finish(r, "like", ServerError)
       ELSE Finish(r, "like",
                [Resp(200, "") EXCEPT !.likes = video.likes, !.liked = req[r].liked])
    /\ UNCHANGED <<db, files, failed, uuidCtr>>

\* ------------------------------------------------ POST /liked/{video_id}
\* mutant of CheckAuth: an unknown token is turned down as the other handlers do
CheckAuthStrict(r, video_id, token) ==
    /\ Free(r)
    /\ LET user == get_user_by_token(token) IN
       IF user = 0
       THEN req' = [req EXCEPT ![r] =
                [Idle EXCEPT !.pc = "done", !.op = "liked", !.token = token,
                             !.resp = Resp(400, "Invalid token")]]
       ELSE req' = [req EXCEPT ![r] =
                [Idle EXCEPT !.pc = "liked_query", !.op = "liked", !.token = token,
                             !.vid = video_id, !.user = user]]
    /\ UNCHANGED <<db, files, failed, uuidCtr>>

\* lines 408-411: authentication; without a user the answer is liked: False.
\* The worker keeps the token of a request answered here.
CheckAuth(r, video_id, token) ==
    /\ Free(r)
    /\ LET user == get_user_by_token(token) IN
       IF user = 0
       THEN req' = [req EXCEPT ![r] =
                [Idle EXCEPT !.pc = "done", !.op = "liked", !.token = token,
                             !.resp = Resp(200, "")]]
       ELSE req' = [req EXCEPT ![r] =
                [Idle EXCEPT !.pc = "liked_query", !.op = "liked", !.token = token,
                             !.vid = video_id, !.user = user]]
    /\ UNCHANGED <<db, files, failed, uuidCtr>>

\* lines 413-416: whether a Like row of this user and video id exists; the
\* video itself is never looked up
CheckLiked(r) ==
    /\ req[r].pc = "liked_query"
    /\ Finish(r, "liked",
            [Resp(200, "") EXCEPT !.liked = (LikesOf(req[r].user, req[r].vid) # {})])
    /\ UNCHANGED <<db, files, failed, uuidCtr>>

\* ----------------------------------------------- POST /comment/{video_id}
\* comments accepted so far that have been, or will be, inserted
CommentsBegun ==
    Cardinality(comments) + Cardinality({q \in Req : req[q].pc = "com_commit"})

\* lines 452-459: authentication, then not content.strip()
CommentAuth(r, video_id, token, content) ==
    /\ Free(r)
    /\ LET user == get_user_by_token(token) IN
       IF user = 0
       THEN Finish(r, "comment", Resp(400, "Invalid token"))
       ELSE IF Strip(content) = <<>>
       THEN Finish(r, "comment", Resp(400, "Comment cannot be empty"))
       ELSE /\ CommentsBegun < MaxComments
            /\ req' = [req EXCEPT ![r] =
                 [Idle EXCEPT !.pc = "com_commit", !.op = "comment", !.vid = video_id,
                              !.user = user, !.text = content]]
    /\ UNCHANGED <<db, files, failed, uuidCtr>>

\* lines 461-475: INSERT INTO comments and COMMIT; the video is never looked up
CommentCommit(r) ==
    /\ req[r].pc = "com_commit"
    /\ comments' = comments \cup {[id |-> NextId(comments), video_id |-> req[r].vid,
                                   user_id |-> req[r].user, content |-> req[r].text]}
    /\ Finish(r, "comment", Resp(200, "Comment added successfully"))
    /\ UNCHANGED <<users, videos, likes, files, failed, uuidCtr>>

\* ------------------------------------------------ DELETE /video/{video_id}
\* lines 489-492: authentication
DeleteAuth(r, video_id, token) ==
    /\ Free(r)
    /\ LET user == get_user_by_token(token) IN
       IF user = 0
       THEN Finish(r, "delete", Resp(400, "Invalid token"))
       ELSE req' = [req EXCEPT ![r] =
                [Idle EXCEPT !.pc = "del_video", !.op = "delete", !.vid = video_id,
                             !.user = user]]
    /\ UNCHANGED <<db, files, failed, uuidCtr>>

\* line 500: video.uploader_id != user.id
NotOwner(video, user) == video.uploader_id # user

\* lines 494-501: the video is loaded, then the ownership check
DeleteVideo(r) ==
    /\ req[r].pc = "del_video"
    /\ LET video == VideoById(req[r].vid) IN
       IF video = NoVideo
       THEN Finish(r, "delete", Resp(404, "Video not found"))
       ELSE IF NotOwner(video, req[r].user)
       THEN Finish(r, "delete", Resp(403, "Not authorized to delete this video"))
       ELSE req' = [req EXCEPT ![r].pc = "del_remove", ![r].video = video]
    /\ UNCHANGED <<db, files, failed, uuidCtr>>


\* mutant of Caught: os.remove is called without the try/except
CaughtNothing == {}

\* the exceptions of os.remove that the handler catches (line 506)
Caught == {"FileNotFoundError"}

\* what os.remove(path) can do: for a file that is there, remove it or raise
\* an OSError other than FileNotFoundError (PermissionError when the file is
\* held open or the directory is read-only, EBUSY, EIO) and leave it; for a
\* file that is not there, raise FileNotFoundError
RemoveOutcomes(path) ==
    IF path \in files THEN {"removed", "OSError"} ELSE {"FileNotFoundError"}

\* lines 503-508: os.remove(video.filename) under try/except FileNotFoundError
DeleteRemove(r) ==
    /\ req[r].pc = "del_remove"
    /\ \E outcome \in RemoveOutcomes(req[r].video.filename) :
        /\ files' = IF outcome = "removed" THEN files \ {req[r].video.filename} ELSE files
        /\ IF outcome = "removed" \/ outcome \in Caught
           THEN req' = [req EXCEPT ![r].pc = "del_commit"]
           ELSE Finish(r, "delete", ServerError)
    /\ UNCHANGED <<db, failed, uuidCtr>>

\* mutant of DeleteCommit: the rows that reference the video go with it
DeleteCommitCascade(r) ==
    /\ req[r].pc = "del_commit"
    /\ videos' = {v \in videos : v.id # req[r].video.id}
    /\ likes' = {l \in likes : l.video_id # req[r].video.id}
    /\ comments' = {c \in comments : c.video_id # req[r].video.id}
    /\ Finish(r, "delete", Resp(200, "Video deleted successfully"))
    /\ UNCHANGED <<users, files, failed, uuidCtr>>

\* lines 510-517: DELETE FROM videos WHERE id = ? and COMMIT; a DELETE that
\* matches no row is only warned about
DeleteCommit(r) ==
    /\ req[r].pc = "del_commit"
    /\ videos' = {v \in videos : v.id # req[r].video.id}
    /\ Finish(r, "delete", Resp(200, "Video deleted successfully"))
    /\ UNCHANGED <<users, likes, comments, files, failed, uuidCtr>>

\* ------------------------------------------------------- specifications
\* an action of a specification that does not follow toggleLike runs
Quiet(A) == A /\ UNCHANGED streak

\* the whole program: requests served in parallel, one step of one worker
\* thread at a time
Next ==
    \E r \in Req :
        \/ Quiet(\E u \in Usernames : RegisterCheck(r, u))
        \/ Quiet(RegisterCommit(r))
        \/ Quiet(\E t \in Titles, d \in Descriptions, k \in Usernames :
                    UploadValidate(r, t, d, k))
        \/ Quiet(UploadAuth(r))
        \/ Quiet(UploadWrite(r))
        \/ Quiet(UploadCommit(r))
        \/ Quiet(UploadRefresh(r))
        \/ Quiet(ListVideos(r))
        \/ Quiet(\E v \in VideoIds : StreamVideo(r, v))
        \/ Quiet(StreamSend(r))
        \/ Quiet(\E v \in VideoIds, k \in Usernames : LikeAuth(r, v, k))
        \/ Quiet(LikeVideo(r))
        \/ Quiet(LikeExisting(r))
        \/ Quiet(LikeCommit(r))
        \/ Quiet(LikeReturn(r))
        \/ Quiet(\E v \in VideoIds, k \in Usernames : CheckAuth(r, v, k))
        \/ Quiet(CheckLiked(r))
        \/ Quiet(\E v \in VideoIds, k \in Usernames, c \in Contents :
                    CommentAuth(r, v, k, c))
        \/ Quiet(CommentCommit(r))
        \/ Quiet(\E v \in VideoIds, k \in Usernames : DeleteAuth(r, v, k))
        \/ Quiet(DeleteVideo(r))
        \/ Quiet(DeleteRemove(r))
        \/ Quiet(DeleteCommit(r))

Spec == Init /\ [][Next]_vars

\* the upload pipeline and the Media Store: /register, /upload and
\* DELETE /video served in parallel.  /like and /comment write only the likes
\* and comments tables and the videos.likes column, none of which /upload or
\* DELETE /video reads.
NextMedia ==
    \E r \in Req :
        \/ Quiet(\E u \in Usernames : RegisterCheck(r, u))
        \/ Quiet(RegisterCommit(r))
        \/ Quiet(\E t \in Titles, d \in Descriptions, k \in Usernames :
                    UploadValidate(r, t, d, k))
        \/ Quiet(UploadAuth(r))
        \/ Quiet(UploadWrite(r))
        \/ Quiet(UploadCommit(r))
        \/ Quiet(UploadRefresh(r))
        \/ Quiet(\E v \in VideoIds, k \in Usernames : DeleteAuth(r, v, k))
        \/ Quiet(DeleteVideo(r))
        \/ Quiet(DeleteRemove(r))
        \/ Quiet(DeleteCommit(r))

SpecMedia == Init /\ [][NextMedia]_vars

\* the same with GET /video served in parallel too
NextStream ==
    \/ NextMedia
    \/ \E r \in Req :
        \/ Quiet(\E v \in VideoIds : StreamVideo(r, v))
        \/ Quiet(StreamSend(r))

SpecStream == Init /\ [][NextStream]_vars

\* the engagement engine on one video: /like and /liked served in parallel.  The
\* requests that set the scene (/register, and /upload until one upload has
\* begun) are served one at a time, while no other request is in flight.
Alone(r) == \A q \in Req \ {r} : Free(q)

NoSetup == \A q \in Req : req[q].op \in {"register", "upload"} => Free(q)

NextLikes ==
    \E r \in Req :
        \/ Quiet(Alone(r) /\ \E u \in Usernames : RegisterCheck(r, u))
        \/ Quiet(RegisterCommit(r))
        \/ Quiet(Alone(r) /\ uuidCtr = 0 /\
                 \E t \in Titles, d \in Descriptions, k \in Usernames :
                    UploadValidate(r, t, d, k))
        \/ Quiet(UploadAuth(r))
        \/ Quiet(UploadWrite(r))
        \/ Quiet(UploadCommit(r))
        \/ Quiet(UploadRefresh(r))
        \/ Quiet(NoSetup /\ \E v \in VideoIds, k \in Usernames : LikeAuth(r, v, k))
        \/ Quiet(LikeVideo(r))
        \/ Quiet(LikeExisting(r))
        \/ Quiet(LikeCommit(r))
        \/ Quiet(LikeReturn(r))
        \/ Quiet(NoSetup /\ \E v \in VideoIds, k \in Usernames : CheckAuth(r, v, k))
        \/ Quiet(CheckLiked(r))

SpecLikes == Init /\ [][NextLikes]_vars

\* one worker thread serving /register, /upload, /videos, /like and DELETE /video: every
\* request runs to its response before the next one starts (/comment writes
\* only the comments table, which none of these reads).  streak follows the
\* current run of toggleLike calls that one user makes on one video with no
\* other request in between; the run starts at a call made when the video
\* exists and the user has no Like row for it.
SeqWorker == "r1"

StreakOnLike(video_id, token) ==
    LET user == get_user_by_token(token)
        video == VideoById(video_id) IN
    IF streak.user # 0 /\ streak.user = user /\ streak.vid = video_id /\ streak.n < MaxCalls
    THEN streak
    ELSE IF user # 0 /\ video # NoVideo /\ LikesOf(user, video_id) = {}
    THEN [user |-> user, vid |-> video_id, n |-> 0, likes0 |-> video.likes,
          rows0 |-> likes, liked |-> FALSE]
    ELSE NoStreak

\* a request other than toggleLike ends the run
Breaks(A) == A /\ streak' = NoStreak

NextSeq ==
    LET r == SeqWorker IN
        \/ Breaks(\E u \in Usernames : RegisterCheck(r, u))
        \/ Quiet(RegisterCommit(r))
        \/ Breaks(\E t \in Titles, d \in Descriptions, k \in Usernames :
                    UploadValidate(r, t, d, k))
        \/ Quiet(UploadAuth(r))
        \/ Quiet(UploadWrite(r))
        \/ Quiet(UploadCommit(r))
        \/ Quiet(UploadRefresh(r))
        \/ Breaks(ListVideos(r))
        \/ \E v \in VideoIds, k \in Usernames :
                LikeAuth(r, v, k) /\ streak' = StreakOnLike(v, k)
        \/ Quiet(LikeVideo(r))
        \/ Quiet(LikeExisting(r))
        \/ Quiet(LikeCommit(r))
        \/ /\ LikeReturn(r)
           /\ streak' = IF streak.user = 0 THEN streak
                        ELSE [streak EXCEPT !.n = @ + 1, !.liked = req'[r].resp.liked]
        \/ Breaks(\E v \in VideoIds, k \in Usernames : DeleteAuth(r, v, k))
        \/ Quiet(DeleteVideo(r))
        \/ Quiet(DeleteRemove(r))
        \/ Quiet(DeleteCommit(r))

SpecSeq == Init /\ [][NextSeq]_vars

\* what a deleted video leaves behind: one worker thread serving /register,
\* /upload, /like, /comment and DELETE /video, one request after another.
\* The /like and /comment requests are about the ids in EngagedIds.
EngagedIds == {1}

NextCascade ==
    LET r == SeqWorker IN
        \/ Quiet(\E u \in Usernames : RegisterCheck(r, u))
        \/ Quiet(RegisterCommit(r))
        \/ Quiet(\E t \in Titles, d \in Descriptions, k \in Usernames :
                    UploadValidate(r, t, d, k))
        \/ Quiet(UploadAuth(r))
        \/ Quiet(UploadWrite(r))
        \/ Quiet(UploadCommit(r))
        \/ Quiet(UploadRefresh(r))
        \/ Quiet(\E v \in EngagedIds, k \in Usernames : LikeAuth(r, v, k))
        \/ Quiet(LikeVideo(r))
        \/ Quiet(LikeExisting(r))
        \/ Quiet(LikeCommit(r))
        \/ Quiet(LikeReturn(r))
        \/ Quiet(\E v \in EngagedIds, k \in Usernames, c \in Contents :
                    CommentAuth(r, v, k, c))
        \/ Quiet(CommentCommit(r))
        \/ Quiet(\E v \in VideoIds, k \in Usernames : DeleteAuth(r, v, k))
        \/ Quiet(DeleteVideo(r))
        \/ Quiet(DeleteRemove(r))
        \/ Quiet(DeleteCommit(r))

SpecCascade == Init /\ [][NextCascade]_vars

\* ---------------------------------------------------------------- claims
LikeRowsOf(video_id) == {l \in likes : l.video_id = video_id}

\* C1: each Video's likes counter equals the number of Like rows whose
\* video_id is that Video's id.
C1_LikesMatchRows ==
    \A v \in videos : v.likes = Cardinality(LikeRowsOf(v.id))

\* C2: there is at most one Like row per (user, video) pair.
C2_OneLikePerPair ==
    \A l1, l2 \in likes :
        (l1.user_id = l2.user_id /\ l1.video_id = l2.video_id) => l1 = l2

\* C3: when the toggleLike calls of two distinct users on one video have both
\* committed, the video's like count equals the number of distinct users who
\* have a Like row for it.
C3_NoLostIncrement ==
    \A r, q \in Req :
        ( /\ req[r].pc = "like_return" /\ req[q].pc = "like_return"
          /\ req[r].user # req[q].user
          /\ req[r].video.id = req[q].video.id )
        => VideoById(req[r].video.id).likes =
             Cardinality({l.user_id : l \in LikeRowsOf(req[r].video.id)})

\* C4: in a run of N toggleLike calls by one user on one video, started when
\* the user had no Like row for it and with no other request in between, the
\* N-th call returns liked = (N is odd), and after an even number of calls the
\* like count and the Like rows are those from before the first call.
C4_ToggleIsItsOwnInverse ==
    (Free(SeqWorker) /\ streak.user # 0 /\ streak.n > 0) =>
        /\ req[SeqWorker].resp.code = 200
        /\ streak.liked = (streak.n % 2 = 1)
        /\ (streak.n % 2 = 0) =>
              /\ likes = streak.rows0
              /\ VideoById(streak.vid).likes = streak.likes0

\* a run of MaxCalls calls on a video that another user likes has ended
C4_Witness ==
    /\ Free(SeqWorker)
    /\ streak.user # 0
    /\ streak.n = MaxCalls
    /\ streak.rows0 # {}
    /\ likes = streak.rows0

\* the worker thread r takes a step
Steps(r) == req'[r] # req[r]

TokenKnown(token) == \E u \in users : u.username = token

\* C5: an upload whose token matches no user is answered "Invalid token" and
\* changes neither the Media Store nor the Catalog, and an upload writes to
\* the Media Store only once its user is authenticated.
C5_UnauthorizedUploadWritesNothing ==
    [][\A r \in Req :
        /\ (req[r].pc = "up_auth" /\ Steps(r) /\ ~TokenKnown(req[r].token)) =>
              /\ req'[r].pc = "done"
              /\ req'[r].resp = Resp(400, "Invalid token")
        /\ (req[r].op = "upload" /\ Steps(r)
              /\ req'[r].pc = "done" /\ req'[r].resp = Resp(400, "Invalid token")) =>
              /\ req[r].path = 0
              /\ UNCHANGED <<files, videos, uuidCtr>>
        /\ (req[r].op = "upload" /\ ~Free(r) /\ Steps(r) /\ files' # files) =>
              \E u \in users : u.id = req[r].user
      ]_vars

\* an upload was refused for its token while the store holds a video
C5_Witness ==
    \E r \in Req :
        /\ req[r].pc = "done" /\ req[r].op = "upload"
        /\ req[r].resp = Resp(400, "Invalid token")
        /\ files # {} /\ videos # {}

\* the order of the stages of an upload, with the failure exits
UploadOrder ==
    {<<"free", "up_auth">>, <<"free", "done">>, <<"up_auth", "up_write">>,
     <<"up_auth", "done">>, <<"up_write", "up_commit">>, <<"up_write", "done">>,
     <<"up_commit", "up_refresh">>, <<"up_commit", "done">>, <<"up_refresh", "done">>}

Stage(r) == IF Free(r) THEN "free" ELSE req[r].pc

\* C6: an upload moves through validating, authenticating, persisting the
\* file, persisting the record and done in that order, and every Video record
\* is created by an upload that has written its file, which exists at that
\* moment.
C6_FileBeforeRecord ==
    [][/\ \A r \in Req :
            (Steps(r) /\ req'[r].op = "upload") => <<Stage(r), req'[r].pc>> \in UploadOrder
       /\ \A v \in videos' :
            (~\E w \in videos : w.id = v.id /\ w.filename = v.filename) =>
                /\ v.filename \in files
                /\ v.filename \in files'
                /\ \E r \in Req : /\ req[r].pc = "up_commit"
                                  /\ req[r].path = v.filename
                                  /\ req'[r].pc = "up_refresh"
      ]_vars

\* an upload has just created its record, which names a file that exists
C6_Witness ==
    \E r \in Req :
        /\ req[r].pc = "up_refresh"
        /\ VideoById(req[r].video.id) # NoVideo
        /\ VideoById(req[r].video.id).filename \in files

\* C7: deleteVideo by an authenticated user who is not the owner is answered
\* 403 and changes neither the record nor the file; deleteVideo by the owner
\* is answered 200 and removes the record; deleteVideo for an id that has no
\* record is answered 404.
C7_DeleteByOwnerOnly ==
    [][\A r \in Req :
        /\ (req[r].pc = "del_video" /\ Steps(r)) =>
              LET video == VideoById(req[r].vid) IN
              /\ (video = NoVideo) => req'[r].resp.code = 404
              /\ (video # NoVideo /\ video.uploader_id # req[r].user) =>
                    /\ req'[r].resp.code = 403
                    /\ UNCHANGED <<videos, files>>
        /\ (req[r].pc \in {"del_remove", "del_commit"} /\ req'[r].pc = "done") =>
              /\ req'[r].resp.code = 200
              /\ VideoById(req[r].video.id)' = NoVideo
      ]_vars

\* C8: in an owner's deleteVideo no outcome of the Media Store deletion keeps
\* the request from going on to the metadata delete.
C8_StorageFailureIgnored ==
    [][\A r \in Req :
        (req[r].pc = "del_remove" /\ Steps(r)) => req'[r].pc = "del_commit"
      ]_vars

\* empty or made of whitespace only
Blank(s) == \A i \in 1..Len(s) : s[i] = " "

\* C9: an upload whose title or description is blank is answered "Title and
\* description cannot be empty" at once, creates no record and no file, and
\* no Video record has a blank title or description.
C9_BlankUploadRejected ==
    [][/\ \A r \in Req :
            (Steps(r) /\ req'[r].op = "upload" /\ (Blank(req'[r].title) \/ Blank(req'[r].text))) =>
                /\ req'[r].pc = "done"
                /\ req'[r].resp = Resp(400, "Title and description cannot be empty")
                /\ Free(r)
                /\ UNCHANGED <<videos, files, uuidCtr>>
       /\ \A v \in videos' : ~Blank(v.title) /\ ~Blank(v.description)
      ]_vars

\* an upload with a whitespace-only title was refused while the store holds a video
C9_Witness ==
    \E r \in Req :
        /\ req[r].pc = "done" /\ req[r].op = "upload"
        /\ req[r].title = <<" ">>
        /\ req[r].resp = Resp(400, "Title and description cannot be empty")
        /\ files # {} /\ videos # {}

\* C10: an owner's deleteVideo that finds the file already gone goes on
\* without changing the Media Store, and the metadata delete it goes on to
\* removes the record and is answered 200.
C10_MissingFileIsNoError ==
    [][\A r \in Req :
        /\ (req[r].pc = "del_remove" /\ Steps(r) /\ req[r].video.filename \notin files) =>
              /\ req'[r].pc = "del_commit"
              /\ files' = files
        /\ (req[r].pc = "del_commit" /\ Steps(r)) =>
              /\ req'[r].pc = "done"
              /\ req'[r].resp = Resp(200, "Video deleted successfully")
              /\ VideoById(req[r].video.id)' = NoVideo
              /\ files' = files
      ]_vars

\* two deletes of the only video ever uploaded were both answered 200: the
\* later os.remove found the file gone
C10_Witness ==
    /\ uuidCtr = 1
    /\ videos = {}
    /\ \A r \in Req : /\ req[r].pc = "done" /\ req[r].op = "delete"
                      /\ req[r].resp = Resp(200, "Video deleted successfully")

\* C11: when persisting the uploaded bytes fails, the upload ends there with a
\* failure response and creates no record, and no record of the videos table
\* ever has a path whose write did not complete.
C11_FailedWriteCreatesNoRecord ==
    [][/\ \A v \in videos' : v.filename \notin failed'
       /\ \A r \in Req :
            req[r].pc = "up_write" /\ Steps(r) /\ failed' # failed =>
                /\ req'[r].pc = "done"
                /\ req'[r].resp.code >= 500
                /\ videos' = videos]_vars

\* an upload has failed at the write and left a truncated file, another one
\* has been recorded
C11_Witness ==
    /\ failed \cap files # {}
    /\ videos # {}
    /\ \E r \in Req : req[r].pc = "done" /\ req[r].op = "upload" /\ req[r].resp = ServerError
\* C12: a /register call whose username is already in the users table is
\* answered 400 "Username already exists" and adds no user, and no two rows of
\* the users table ever have the same username.
C12_UsernamesUnique ==
    [][/\ \A u1, u2 \in users' : u1.username = u2.username => u1 = u2
       /\ \A r \in Req :
            Free(r) /\ Steps(r) /\ req'[r].op = "register"
                    /\ (\E u \in users : u.username = req'[r].token) =>
                /\ req'[r].pc = "done"
                /\ req'[r].resp = Resp(400, "Username already exists")
                /\ users' = users]_vars

\* both usernames are registered and a call that offered one of them again
\* has been turned down
C12_Witness ==
    /\ Cardinality(users) = 2
    /\ \E r \in Req, u \in users :
            /\ req[r].pc = "done" /\ req[r].op = "register"
            /\ req[r].token = u.username /\ req[r].resp.code = 400
\* C13: a /liked call never fails and changes neither the database nor the
\* upload directory: with a token that matches no user it answers liked:
\* false, otherwise whether a Like row of that user and video id exists, for
\* the id of a video and for an id no video has.
C13_CheckLikedNeverFails ==
    [][\A r \in Req :
        Steps(r) /\ req'[r].op = "liked" =>
            /\ UNCHANGED <<db, files>>
            /\ req'[r].pc = "done" => req'[r].resp.code = 200
            /\ Free(r) /\ ~TokenKnown(req'[r].token) =>
                    req'[r].pc = "done" /\ req'[r].resp.liked = FALSE
            /\ req[r].pc = "liked_query" =>
                    /\ req'[r].pc = "done"
                    /\ req'[r].resp.liked =
                            (\E l \in likes : l.user_id = req[r].user /\ l.video_id = req[r].vid)]_vars

\* one call has been answered liked: true, another, sent with an unknown
\* token, liked: false
C13_Witness ==
    \E r, q \in Req :
        /\ req[r].pc = "done" /\ req[r].op = "liked" /\ req[r].resp.liked
        /\ req[q].pc = "done" /\ req[q].op = "liked" /\ ~req[q].resp.liked
        /\ req[q].token # "" /\ ~TokenKnown(req[q].token)
\* C14: an upload with title T by the user of a valid token that succeeds
\* returns the id of the record it created, and the /videos answer then has
\* an entry with that id, title T, likes 0 and that user's username as
\* uploader.
C14_UploadIsListed ==
    [][\A r \in Req :
        /\ req[r].pc = "up_commit" /\ Steps(r) =>
              \E v \in videos' \ videos :
                /\ videos' = videos \cup {v}
                /\ req'[r].video.id = v.id
                /\ \E u \in users : u.id = req[r].user /\
                      \E e \in Listing' : /\ e.id = v.id /\ e.title = req[r].title
                                          /\ e.likes = 0 /\ e.uploader = u.username
        /\ req[r].pc = "up_refresh" /\ Steps(r) /\ req'[r].resp.code = 200 =>
              /\ req'[r].resp.id = req[r].video.id
              /\ Listing' = Listing
        /\ req[r].pc = "done" /\ req[r].op = "upload" /\ req[r].resp.code = 200
                /\ Steps(r) /\ req'[r].op = "list" =>
              \E e \in req'[r].resp.list :
                 e.id = req[r].resp.id /\ e.title = req[r].title /\ e.likes = 0]_vars

\* bob's upload, the second one, has been answered with id 2 and /videos
\* would list it
C14_Witness ==
    \E r \in Req :
        /\ req[r].pc = "done" /\ req[r].op = "upload"
        /\ req[r].resp.code = 200 /\ req[r].resp.id = 2
        /\ \E e \in Listing : /\ e.id = 2 /\ e.title = req[r].title
                              /\ e.likes = 0 /\ e.uploader = "bob"
\* C15: GET /video/{id} is answered 404 when no record has the id, and also
\* when the record exists but the file it names is not in the upload
\* directory.
C15_StreamNotFound ==
    [][\A r \in Req :
        /\ Free(r) /\ Steps(r) /\ req'[r].op = "stream"
                /\ VideoById(req'[r].vid) = NoVideo =>
              req'[r].pc = "done" /\ req'[r].resp.code = 404
        /\ req[r].pc = "stream_send" /\ Steps(r) /\ req[r].path \notin files =>
              req'[r].pc = "done" /\ req'[r].resp.code = 404]_vars
\* C16: DELETE /video changes nothing but the record it deletes and that
\* record's file: every row of likes and of comments stays as it was, the
\* rows that reference the deleted video included.
C16_DeleteLeavesRows ==
    [][\A r \in Req :
        Steps(r) /\ req'[r].op = "delete" =>
            /\ likes' = likes /\ comments' = comments /\ users' = users
            /\ videos' \subseteq videos
            /\ \A v \in videos \ videos' : v.id = req[r].vid
            /\ files' \subseteq files
            /\ \A f \in files \ files' : f = req[r].video.filename]_vars

\* a video has been deleted; a Like row and a Comment row still carry its id
C16_Witness ==
    \E r \in Req, l \in likes, c \in comments :
        /\ req[r].pc = "done" /\ req[r].op = "delete" /\ req[r].resp.code = 200
        /\ l.video_id = c.video_id
        /\ VideoById(l.video_id) = NoVideo
\* C17: in every reachable state, the states between the steps of an upload
\* or a delete in flight included, the file every record of the videos table
\* names is in the upload directory.
C17_RecordsHaveFiles == \A v \in videos : v.filename \in files
\* C18: when an upload commits, the record it creates has likes 0 and no row
\* of likes or of comments carries its id, also after videos that had likes
\* and comments were deleted: an id is not given out again while rows that
\* reference it remain.
C18_NewVideoHasNoEngagement ==
    [][\A r \in Req :
        req[r].pc = "up_commit" /\ Steps(r) =>
            \A v \in videos' \ videos :
                /\ v.likes = 0
                /\ \A l \in likes' : l.video_id # v.id
                /\ \A c \in comments' : c.video_id # v.id]_vars
\* C19: the likes counter of a video is never negative.
C19_LikesNonNegative == \A v \in videos : v.likes >= 0
====
